---------------------------- MODULE Spec2Model ----------------------------
(***************************************************************************)
(* Order processing of the bookstore API: POST /transactions               *)
(* (authMiddleware, then createTransaction) against the Book and           *)
(* Transaction tables, the catalogue handlers of Genre and Book, and the   *)
(* read routes GET /transactions/statistics and GET /transactions/:id.    *)
(*                                                                         *)
(* Every `await prisma...` of a handler is a suspension point: the code    *)
(* between two awaits runs as one step of the Node event loop, so each     *)
(* action below is one persistence call together with the synchronous      *)
(* code that follows it up to the next await.                              *)
(*                                                                         *)
(* Numbers.  A JSON quantity may be a non-integer.  Quantities, stocks and *)
(* amounts (subtotal, totalAmount) are therefore kept in fixed point with  *)
(* one binary fractional digit: the value v is stored as 2v (Num).  Prices *)
(* are whole numbers, so subtotal = price * quantity needs no rescaling.   *)
(***************************************************************************)
EXTENDS Integers, Sequences, FiniteSets

\* ------------------------------------------------------------------ bounds
MaxItems == 2
MaxStock == 2

\* ----------------------------------------------------------------- domains
Reqs    == {1, 2}          \* request slots: at most two requests in flight
Users   == {1, 2}          \* ids of registered users
BookIds == {1, 2}          \* ids of the Book records
GhostId == 3               \* a book id that matches no Book record
NoId    == 0               \* a missing (undefined / empty) id
Prices  == {1, 2}
GenreIds == {1, 2, 3}      \* ids a Genre record can have
\* genre names as requests spell them ("" is an empty name)
GenreNames == {"", "art", "sf", "SF", " sf"}

Num(n)       == 2 * n               \* the integer n in fixed point
IsInteger(q) == q % 2 = 0

Null == [null |-> TRUE]

\* Tokens: what jwt.verify looks at (signature, expiry) and the payload.
Token(signed, expired, id) ==
  [signed |-> signed, expired |-> expired, payload |-> [id |-> id]]

NoHeader       == [scheme |-> "none",   token |-> Token(FALSE, FALSE, NoId)]
BasicHeader    == [scheme |-> "Basic",  token |-> Token(FALSE, FALSE, NoId)]
Bearer(t)      == [scheme |-> "Bearer", token |-> t]
ForgedHeaders  == {Bearer(Token(FALSE, FALSE, u)) : u \in Users}
ExpiredHeaders == {Bearer(Token(TRUE, TRUE, u)) : u \in Users}
ValidHeaders   == {Bearer(Token(TRUE, FALSE, u)) : u \in Users}
\* a token signed with the secret whose payload carries no id
NoIdHeader     == Bearer(Token(TRUE, FALSE, NoId))
AllHeaders     == {NoHeader, BasicHeader, NoIdHeader}
                    \cup ForgedHeaders \cup ExpiredHeaders \cup ValidHeaders

Item(b, q) == [bookId |-> b, quantity |-> q]

SeqsUpTo(S, n) == UNION {[1..k -> S] : k \in 0..n}

AbsentBody  == [kind |-> "absent",  items |-> <<>>]
NotListBody == [kind |-> "notlist", items |-> <<>>]
ListBody(s) == [kind |-> "list",    items |-> s]

\* Well-formed orders on existing books.
OrderItems  == {Item(b, Num(q)) : b \in BookIds, q \in {1, MaxStock}}
OrderBodies == {ListBody(s) : s \in SeqsUpTo(OrderItems, MaxItems) \ {<<>>}}

\* Orders that may name an unknown book or ask for more than is in stock.
StockItems  == {Item(b, Num(q)) : b \in BookIds \cup {GhostId},
                                  q \in {1, MaxStock, MaxStock + 1}}
StockBodies == {ListBody(s) : s \in SeqsUpTo(StockItems, MaxItems) \ {<<>>}}

\* Bodies of every shape: quantities -1, 0, 1 and 1.5, ids missing or not.
ShapeItems  == {Item(b, q) : b \in {NoId, 1, GhostId},
                             q \in {Num(-1), Num(0), Num(1), Num(1) + 1}}
ShapeBodies == {AbsentBody, NotListBody}
                 \cup {ListBody(s) : s \in SeqsUpTo(ShapeItems, MaxItems)}

VARIABLES
  books,         \* Book table: id -> [stock, price]
  transactions,  \* Transaction table, each row with its TransactionDetail rows
  audit,         \* per Transaction row: the token id and the books its order fetched
  req,           \* per request slot: the request, the handler's locals, and
                 \* the stocks (before) and row count (rows) it arrived to
  genres,        \* Genre table: id -> name
  reply          \* the last response of a catalogue or read handler

vars == <<books, transactions, audit, req, genres, reply>>

NoReply == [handler |-> "", status |-> 0]

Idle == [pc |-> "idle", headers |-> NoHeader, body |-> AbsentBody,
         user |-> Null, books |-> <<>>, totalAmount |-> 0,
         transactionDetails |-> <<>>, i |-> 0, status |-> 0,
         message |-> "", offender |-> NoId, before |-> <<>>, rows |-> 0]

Closed == [Idle EXCEPT !.pc = "closed"]

Init ==
  /\ books = [b \in BookIds |-> [stock |-> Num(MaxStock), price |-> b,
                                  title |-> b, genreId |-> b]]
  /\ transactions = <<>>
  /\ audit = <<>>
  /\ req = [r \in Reqs |-> Idle]
  /\ genres = [g \in BookIds |-> IF g = 1 THEN "art" ELSE "sf"]
  /\ reply = NoReply

\* --------------------------------------------------------------- utils/jwt
\* Mutant: the payload is decoded without checking signature or expiry.
verifyTokenUnchecked(token) == token.payload

verifyToken(token) ==
  IF token.signed /\ ~token.expired THEN token.payload ELSE Null

\* ---------------------------------------------------------- middleware/auth
authMiddleware(headers) ==
  IF headers.scheme # "Bearer"
    THEN [status |-> 401, message |-> "Access token is required", user |-> Null]
    ELSE LET decoded == verifyToken(headers.token) IN
         IF decoded = Null
           THEN [status |-> 401, message |-> "Invalid or expired token",
                 user |-> Null]
           ELSE [status |-> 0, message |-> "", user |-> decoded]

\* ------------------------------------------- createTransaction, lines 6-33
InvalidItem(item) ==
  item.bookId = NoId \/ item.quantity = 0 \/ item.quantity <= 0

validateRequest(user, body) ==
  IF user.id = NoId
    THEN [status |-> 401, message |-> "Unauthorized"]
  ELSE IF body.kind # "list" \/ Len(body.items) = 0
    THEN [status |-> 400, message |-> "Items are required"]
  ELSE IF \E k \in 1..Len(body.items) : InvalidItem(body.items[k])
    THEN [status |-> 400, message |-> "Invalid item data"]
  ELSE [status |-> 0, message |-> ""]

\* ------------------------------------------ createTransaction, lines 35-83
bookIdsOf(items) == [k \in 1..Len(items) |-> items[k].bookId]

\* prisma.book.findMany({ where: { id: { in: bookIds } } }): one record for
\* every Book whose id occurs in bookIds, however often it occurs.
findMany(table, bookIds) ==
  [b \in {bookIds[k] : k \in 1..Len(bookIds)} \cap DOMAIN table |->
     [id |-> b, stock |-> table[b].stock, price |-> table[b].price]]

\* The loop of lines 48-65 stops at the first line whose book is not among
\* the fetched ones or has less stock than the line asks for.
LineFails(item, fetched) ==
  \/ item.bookId \notin DOMAIN fetched
  \/ fetched[item.bookId].stock < item.quantity

FirstFailing(items, fetched) ==
  LET bad == {k \in 1..Len(items) : LineFails(items[k], fetched)}
  IN  IF bad = {} THEN 0 ELSE CHOOSE k \in bad : \A j \in bad : k <= j

\* Mutant: no comparison of the number of fetched books with the number of
\* requested ids; the lines are only scanned one by one.
checkBooksPerLine(items, fetched) ==
  LET k == FirstFailing(items, fetched) IN
    IF k = 0 THEN [status |-> 0, message |-> "", offender |-> NoId]
    ELSE IF items[k].bookId \notin DOMAIN fetched
      THEN [status |-> 404, message |-> "Book not found", offender |-> NoId]
    ELSE [status |-> 400, message |-> "Insufficient stock for book",
          offender |-> items[k].bookId]

checkBooks(items, fetched) ==
  IF Cardinality(DOMAIN fetched) # Len(bookIdsOf(items))
    THEN [status |-> 404, message |-> "One or more books not found",
          offender |-> NoId]
  ELSE LET k == FirstFailing(items, fetched) IN
    IF k = 0 THEN [status |-> 0, message |-> "", offender |-> NoId]
    ELSE IF items[k].bookId \notin DOMAIN fetched
      THEN [status |-> 404, message |-> "Book not found", offender |-> NoId]
    ELSE [status |-> 400, message |-> "Insufficient stock for book",
          offender |-> items[k].bookId]

\* Lines 70-83: one detail per line, priced from the fetched record.
detailOf(item, book) ==
  [bookId |-> item.bookId, quantity |-> item.quantity,
   price |-> book.price, subtotal |-> book.price * item.quantity]

buildDetails(items, fetched) ==
  [k \in 1..Len(items) |-> detailOf(items[k], fetched[items[k].bookId])]

RECURSIVE SumSubtotals(_)
SumSubtotals(details) ==
  IF details = <<>> THEN 0
  ELSE details[1].subtotal + SumSubtotals(Tail(details))

\* ----------------------------------------------------------------- actions
Finish(r, status, message, offender) ==
  [req[r] EXCEPT !.pc = "done", !.status = status, !.message = message,
                 !.offender = offender]

\* POST /transactions arrives: authMiddleware, then createTransaction up to
\* its first await (lines 6-36).
Arrive(r, headers, body) ==
  /\ LET a == authMiddleware(headers)
         v == IF a.status # 0 THEN [status |-> a.status, message |-> a.message]
              ELSE validateRequest(a.user, body)
         arrived == [req[r] EXCEPT !.headers = headers, !.body = body,
                                   !.user = a.user,
                                   !.before = [b \in BookIds |-> books[b].stock],
                                   !.rows = Len(transactions)]
     IN  req' = [req EXCEPT ![r] =
                   IF v.status # 0
                     THEN [arrived EXCEPT !.pc = "done", !.status = v.status,
                                          !.message = v.message]
                     ELSE [arrived EXCEPT !.pc = "findMany"]]
  /\ UNCHANGED <<books, transactions, audit, genres, reply>>

\* The batch lookup answers; lines 40-84 run on its result.
FindMany(r) ==
  /\ req[r].pc = "findMany"
  /\ LET items   == req[r].body.items
         fetched == findMany(books, bookIdsOf(items))
         c       == checkBooks(items, fetched)
         details == buildDetails(items, fetched)
     IN  req' = [req EXCEPT ![r] =
                   IF c.status # 0
                     THEN [@ EXCEPT !.books = fetched, !.pc = "done",
                                    !.status = c.status, !.message = c.message,
                                    !.offender = c.offender]
                     ELSE [@ EXCEPT !.books = fetched, !.pc = "create",
                                    !.transactionDetails = details,
                                    !.totalAmount = SumSubtotals(details)]]
  /\ UNCHANGED <<books, transactions, audit, genres, reply>>

\* Mutant: the details are priced again from the Book table when the row is
\* written, instead of from the records the lookup fetched.
transactionRowRepriced(r) ==
  LET details == buildDetails(req[r].body.items,
                              findMany(books, bookIdsOf(req[r].body.items)))
  IN  [userId |-> req[r].user.id, totalAmount |-> SumSubtotals(details),
       transactionDetails |-> details]

\* The row prisma.transaction.create writes (lines 85-92).
transactionRow(r) ==
  [userId |-> req[r].user.id, totalAmount |-> req[r].totalAmount,
   transactionDetails |-> req[r].transactionDetails]

\* prisma.transaction.create (lines 85-104).  TransactionDetail.quantity is
\* an integer column: the client rejects a non-integer value, the handler's
\* catch answers 500 and nothing is written.
Create(r) ==
  /\ req[r].pc = "create"
  /\ LET row == transactionRow(r) IN
     IF \E k \in 1..Len(row.transactionDetails) :
          ~IsInteger(row.transactionDetails[k].quantity)
       THEN /\ req' = [req EXCEPT ![r] =
                         Finish(r, 500, "Internal server error", NoId)]
            /\ UNCHANGED <<books, transactions, audit, genres, reply>>
       ELSE /\ transactions' = Append(transactions, row)
            /\ audit' = Append(audit, [token |-> req[r].headers.token,
                                        fetched |-> req[r].books])
            /\ req' = [req EXCEPT ![r] = [@ EXCEPT !.pc = "update", !.i = 1]]
            /\ UNCHANGED <<books, genres, reply>>

\* Mutant: every line takes one copy off the stock.
decrementOne(stock, quantity) == stock - Num(1)

\* stock: { decrement: item.quantity } (lines 107-114).
decrement(stock, quantity) == stock - quantity

\* Mutant: the stock is written back from the record the lookup fetched, a
\* read-modify-write in place of the atomic decrement.
UpdateStale(r) ==
  /\ req[r].pc = "update"
  /\ LET items == req[r].body.items
         item  == items[req[r].i]
     IN  /\ books' = [books EXCEPT ![item.bookId].stock =
                        req[r].books[item.bookId].stock - item.quantity]
         /\ req' = [req EXCEPT ![r] =
                      IF req[r].i = Len(items)
                        THEN Finish(r, 201, "Transaction created successfully",
                                    NoId)
                        ELSE [@ EXCEPT !.i = @ + 1]]
  /\ UNCHANGED <<transactions, audit, genres, reply>>

\* One prisma.book.update of the loop of lines 106-115; after the last one
\* the handler answers 201 (lines 117-121).
Update(r) ==
  /\ req[r].pc = "update"
  /\ LET items == req[r].body.items
         item  == items[req[r].i]
     IN  /\ books' = [books EXCEPT ![item.bookId].stock =
                        decrement(@, item.quantity)]
         /\ req' = [req EXCEPT ![r] =
                      IF req[r].i = Len(items)
                        THEN Finish(r, 201, "Transaction created successfully",
                                    NoId)
                        ELSE [@ EXCEPT !.i = @ + 1]]
  /\ UNCHANGED <<transactions, audit, genres, reply>>

\* An awaited persistence call rejects: the catch of lines 122-127.
PersistenceFault(r) ==
  /\ req[r].pc \in {"findMany", "create", "update"}
  /\ req' = [req EXCEPT ![r] = Finish(r, 500, "Internal server error", NoId)]
  /\ UNCHANGED <<books, transactions, audit, genres, reply>>

\* The response has been sent; the request and the handler's locals are gone.
Close(r) ==
  /\ req[r].pc = "done"
  /\ req' = [req EXCEPT ![r] = Closed]
  /\ UNCHANGED <<books, transactions, audit, genres, reply>>

\* updateBook: prisma.book.update with the fields the body carries
\* (bookController lines 326-338); the lookups before it change nothing.
updatedBook(book, fields, price, stock) ==
  [book EXCEPT !.price = IF "price" \in fields THEN price ELSE @,
               !.stock = IF "stock" \in fields THEN stock ELSE @]

\* Mutant: the details of past transactions follow the Book's price.
UpdateBookLive(b, fields, price, stock) ==
  /\ b \in DOMAIN books
  /\ books' = [books EXCEPT ![b] = updatedBook(@, fields, price, stock)]
  /\ books' # books
  /\ transactions' =
       [t \in 1..Len(transactions) |->
          [userId |-> transactions[t].userId,
           totalAmount |-> transactions[t].totalAmount,
           transactionDetails |->
             [k \in 1..Len(transactions[t].transactionDetails) |->
                LET d == transactions[t].transactionDetails[k] IN
                IF d.bookId = b
                  THEN [d EXCEPT !.price = books'[b].price,
                                 !.subtotal = books'[b].price * d.quantity]
                  ELSE d]]]
  /\ UNCHANGED <<audit, req, genres, reply>>

UpdateBook(b, fields, price, stock) ==
  /\ b \in DOMAIN books
  /\ books' = [books EXCEPT ![b] = updatedBook(@, fields, price, stock)]
  /\ books' # books
  /\ UNCHANGED <<transactions, audit, req, genres, reply>>

\* ------------------------------------ getTransactionStatistics, lines 216-288
RECURSIVE sumTotalAmount(_)
\* transactions.reduce((sum, t) => sum + t.totalAmount, 0)
sumTotalAmount(rows) ==
  IF rows = <<>> THEN 0 ELSE rows[1].totalAmount + sumTotalAmount(Tail(rows))

\* A quotient, kept as numerator and denominator.
Ratio(n, d) == [num |-> n, den |-> d]

averageOf(rows) ==
  IF Len(rows) > 0 THEN Ratio(sumTotalAmount(rows), Len(rows)) ELSE Ratio(0, 1)

RECURSIVE detailsOf(_)
\* The details in the order the nested forEach visits them.
detailsOf(rows) ==
  IF rows = <<>> THEN <<>>
  ELSE rows[1].transactionDetails \o detailsOf(Tail(rows))

\* Mutant: every detail counts once, whatever its quantity.
countDetailOnce(entries, genreId, genreName, quantity) ==
  IF \E k \in 1..Len(entries) : entries[k].genreId = genreId
    THEN [k \in 1..Len(entries) |->
            IF entries[k].genreId = genreId
              THEN [entries[k] EXCEPT !.count = @ + Num(1)]
              ELSE entries[k]]
    ELSE Append(entries, [genreId |-> genreId, name |-> genreName,
                          count |-> Num(1)])

\* Lines 241-247: genreCount keeps its keys in the order they were first
\* added (the ids are UUID strings).
countDetail(entries, genreId, genreName, quantity) ==
  IF \E k \in 1..Len(entries) : entries[k].genreId = genreId
    THEN [k \in 1..Len(entries) |->
            IF entries[k].genreId = genreId
              THEN [entries[k] EXCEPT !.count = @ + quantity]
              ELSE entries[k]]
    ELSE Append(entries, [genreId |-> genreId, name |-> genreName,
                          count |-> quantity])

RECURSIVE genreCountOf(_, _, _, _)
genreCountOf(entries, details, bookTable, genreTable) ==
  IF details = <<>> THEN entries
  ELSE LET genreId == bookTable[details[1].bookId].genreId IN
       genreCountOf(countDetail(entries, genreId, genreTable[genreId],
                                details[1].quantity),
                    Tail(details), bookTable, genreTable)

\* One entry put into a list sorted by count, largest first, behind the
\* entries of the same count (Array.prototype.sort is stable).
insertByCount(sorted, e) ==
  LET ahead == Cardinality({k \in 1..Len(sorted) : sorted[k].count >= e.count})
  IN  SubSeq(sorted, 1, ahead) \o <<e>> \o SubSeq(sorted, ahead + 1, Len(sorted))

RECURSIVE sortByCount(_, _)
\* genreEntries.sort((a, b) => b[1].count - a[1].count)
sortByCount(sorted, entries) ==
  IF entries = <<>> THEN sorted
  ELSE sortByCount(insertByCount(sorted, entries[1]), Tail(entries))

genreOf(e) ==
  [genreId |-> e.genreId, genreName |-> e.name, totalTransactions |-> e.count]

getTransactionStatistics(rows, bookTable, genreTable) ==
  LET genreEntries == sortByCount(<<>>, genreCountOf(<<>>, detailsOf(rows),
                                                      bookTable, genreTable))
  IN  [handler |-> "getTransactionStatistics", status |-> 200,
       totalTransactions |-> Len(rows),
       averageTransaction |-> averageOf(rows),
       mostPopularGenre |->
         IF Len(genreEntries) > 0 THEN genreOf(genreEntries[1]) ELSE Null,
       leastPopularGenre |->
         IF Len(genreEntries) > 0 THEN genreOf(genreEntries[Len(genreEntries)])
         ELSE Null]

\* GET /transactions/statistics is answered.
GetStatistics ==
  /\ reply' = getTransactionStatistics(transactions, books, genres)
  /\ UNCHANGED <<books, transactions, audit, req, genres>>

Receive(r, Headers, Bodies) ==
  /\ req[r].pc = "idle"
  /\ \E h \in Headers, b \in Bodies : Arrive(r, h, b)

NoOtherInFlight(r) ==
  \A o \in Reqs \ {r} : req[o].pc \in {"idle", "closed"}

\* ------------------------------------------------- genre and book handlers
\* String.prototype.trim and the case folding of `mode: "insensitive"`, on
\* the names above.
trim(name)    == IF name = " sf" THEN "sf" ELSE name
toLower(name) == IF name = "SF" THEN "sf" ELSE name

\* The id prisma gives a new record: one no record of the table has.
newId(ids, table) ==
  CHOOSE g \in ids \ DOMAIN table : \A h \in ids \ DOMAIN table : g <= h

insert(table, id, record) ==
  [k \in DOMAIN table \cup {id} |-> IF k = id THEN record ELSE table[k]]

remove(table, id) == [k \in DOMAIN table \ {id} |-> table[k]]

\* req.body.name of a body that carries no name.
Undefined == "undefined"

\* prisma.genre.findUnique({ where: { name } }): Genre.name is unique.
genresNamed(name) == {g \in DOMAIN genres : genres[g] = name}

\* prisma.book.count({ where: { genreId } })
booksCount(genreId) ==
  Cardinality({b \in DOMAIN books : books[b].genreId = genreId})

\* A response: the handler, the status, and for the genre handlers the
\* genre id and name the request gave.
Answer(handler, status, id, name) ==
  [handler |-> handler, status |-> status, id |-> id, name |-> name]

\* Mutant: no lookup of the name before the insert; the unique index on
\* Genre.name rejects a second genre of the same name and the catch
\* answers 500.
createGenreUnchecked(name) ==
  IF name = ""
    THEN /\ reply' = Answer("createGenre", 400, NoId, name)
         /\ UNCHANGED genres
  ELSE IF genresNamed(name) # {}
    THEN /\ reply' = Answer("createGenre", 500, NoId, name)
         /\ UNCHANGED genres
  ELSE /\ GenreIds \ DOMAIN genres # {}
       /\ genres' = insert(genres, newId(GenreIds, genres), name)
       /\ reply' = Answer("createGenre", 201, newId(GenreIds, genres), name)

\* createGenre (genreController lines 6-47)
createGenre(name) ==
  IF name = ""
    THEN /\ reply' = Answer("createGenre", 400, NoId, name)
         /\ UNCHANGED genres
  ELSE IF genresNamed(name) # {}
    THEN /\ reply' = Answer("createGenre", 400, NoId, name)
         /\ UNCHANGED genres
  ELSE /\ GenreIds \ DOMAIN genres # {}
       /\ genres' = insert(genres, newId(GenreIds, genres), name)
       /\ reply' = Answer("createGenre", 201, newId(GenreIds, genres), name)

CreateGenre(name) ==
  /\ createGenre(name)
  /\ UNCHANGED <<books, transactions, audit, req>>

\* updateGenre (genreController lines 110-145).  `fields` tells whether the
\* body carries a name.  The update of a missing Genre throws P2025 (404);
\* one that would repeat another Genre's name is refused by the unique index
\* and the catch answers 500.
UpdateGenre(genreId, fields, name) ==
  /\ IF "name" \in fields /\ name # "" /\ genresNamed(name) \ {genreId} # {}
       THEN /\ reply' = Answer("updateGenre", 400, genreId, name)
            /\ UNCHANGED genres
     ELSE IF genreId \notin DOMAIN genres
       THEN /\ reply' = Answer("updateGenre", 404, genreId, name)
            /\ UNCHANGED genres
     ELSE IF "name" \in fields /\ genresNamed(name) \ {genreId} # {}
       THEN /\ reply' = Answer("updateGenre", 500, genreId, name)
            /\ UNCHANGED genres
     ELSE /\ genres' = [genres EXCEPT ![genreId] =
                          IF "name" \in fields THEN name ELSE @]
          /\ reply' = Answer("updateGenre", 200, genreId, name)
  /\ UNCHANGED <<books, transactions, audit, req>>

\* Mutant: the genre is deleted without counting its books.
deleteGenreUnguarded(genreId) ==
  IF genreId \notin DOMAIN genres
    THEN /\ reply' = Answer("deleteGenre", 404, genreId, "")
         /\ UNCHANGED genres
  ELSE /\ genres' = remove(genres, genreId)
       /\ reply' = Answer("deleteGenre", 200, genreId, "")

\* deleteGenre (genreController lines 148-181)
deleteGenre(genreId) ==
  IF booksCount(genreId) > 0
    THEN /\ reply' = Answer("deleteGenre", 400, genreId, "")
         /\ UNCHANGED genres
  ELSE IF genreId \notin DOMAIN genres
    THEN /\ reply' = Answer("deleteGenre", 404, genreId, "")
         /\ UNCHANGED genres
  ELSE /\ genres' = remove(genres, genreId)
       /\ reply' = Answer("deleteGenre", 200, genreId, "")

DeleteGenre(genreId) ==
  /\ deleteGenre(genreId)
  /\ UNCHANGED <<books, transactions, audit, req>>

\* The Genre createBook resolves (bookController lines 38-64): by id, or by
\* name without regard to case, NoId when neither is given or the id is
\* unknown.
genreMatching(name) ==
  {g \in DOMAIN genres : toLower(genres[g]) = toLower(trim(name))}

\* createBook (bookController lines 4-93) with all required fields given.
CreateBook(title, genre_id, genre) ==
  /\ IF \E b \in DOMAIN books : books[b].title = title
       THEN /\ reply' = Answer("createBook", 400, NoId, "")
            /\ UNCHANGED <<books, genres>>
     ELSE IF genre_id # NoId /\ genre_id \notin DOMAIN genres
       THEN /\ reply' = Answer("createBook", 404, NoId, "")
            /\ UNCHANGED <<books, genres>>
     ELSE IF genre_id = NoId /\ (genre = "" \/ trim(genre) = "")
       THEN /\ reply' = Answer("createBook", 400, NoId, "")
            /\ UNCHANGED <<books, genres>>
     ELSE /\ BookIds \ DOMAIN books # {}
          /\ genre_id = NoId /\ genreMatching(genre) = {} =>
               GenreIds \ DOMAIN genres # {}
          /\ LET created == genre_id = NoId /\ genreMatching(genre) = {}
                 genreRecord ==
                   IF genre_id # NoId THEN genre_id
                   ELSE IF created THEN newId(GenreIds, genres)
                   ELSE CHOOSE g \in genreMatching(genre) : TRUE
                 book == newId(BookIds, books)
             IN  /\ genres' = IF created
                                THEN insert(genres, genreRecord, trim(genre))
                                ELSE genres
                 /\ books' = insert(books, book,
                               [stock |-> Num(1), price |-> 1, title |-> title,
                                genreId |-> genreRecord])
                 /\ reply' = Answer("createBook", 201, NoId, "")
  /\ UNCHANGED <<transactions, audit, req>>

\* updateBook (bookController lines 267-355) with a body that carries only
\* genreId.
UpdateBookGenre(book, genreId) ==
  /\ IF book \notin DOMAIN books
       THEN /\ reply' = Answer("updateBook", 404, NoId, "")
            /\ UNCHANGED books
     ELSE IF genreId # NoId /\ genreId # books[book].genreId
               /\ genreId \notin DOMAIN genres
       THEN /\ reply' = Answer("updateBook", 404, NoId, "")
            /\ UNCHANGED books
     ELSE /\ books' = [books EXCEPT ![book].genreId =
                         IF genreId # NoId THEN genreId ELSE @]
          /\ reply' = Answer("updateBook", 200, NoId, "")
  /\ UNCHANGED <<transactions, audit, req, genres>>

\* deleteBook (bookController lines 357-387)
DeleteBook(book) ==
  /\ IF book \notin DOMAIN books
       THEN /\ reply' = Answer("deleteBook", 404, NoId, "")
            /\ UNCHANGED books
     ELSE /\ books' = remove(books, book)
          /\ reply' = Answer("deleteBook", 200, NoId, "")
  /\ UNCHANGED <<transactions, audit, req, genres>>

\* ------------------------------------------------------ transaction routes
\* The one path segment of GET /transactions/<segment>: the word
\* "statistics" or the id of a Transaction.
TransactionIds == {1, 2, 3}
Statistics == [text |-> "statistics", id |-> NoId]
IdSegment(id) == [text |-> "uuid", id |-> id]
Segments == {Statistics} \cup {IdSegment(id) : id \in TransactionIds}

Route(kind, name, handler) == [kind |-> kind, name |-> name, handler |-> handler]

\* The GET routes of the two transaction routers of the repository, in the
\* order they are registered: one declares "/:id", the other
\* "/:transaction_id".
routerId ==
  << Route("root", "", "getAllTransactions"),
     Route("literal", "statistics", "getTransactionStatistics"),
     Route("param", "id", "getTransactionDetail") >>

routerTransactionId ==
  << Route("root", "", "getAllTransactions"),
     Route("literal", "statistics", "getTransactionStatistics"),
     Route("param", "transaction_id", "getTransactionDetail") >>

Routers == {routerId, routerTransactionId}

\* Express matches the path against a route: "/" takes no segment, a literal
\* takes the equal segment, a parameter takes any.
matches(route, segment) ==
  \/ route.kind = "literal" /\ route.name = segment.text
  \/ route.kind = "param"

\* The first route registered that matches.
dispatch(router, segment) ==
  CHOOSE k \in 1..Len(router) :
    /\ matches(router[k], segment)
    /\ \A j \in 1..(k - 1) : ~matches(router[j], segment)

\* req.params of the matched route.
paramsOf(route, segment) ==
  IF route.kind = "param" THEN [n \in {route.name} |-> segment]
  ELSE [n \in {} |-> segment]

\* getTransactionDetail (transactionController lines 169-214).  It reads
\* req.params.transaction_id; findUnique with an undefined id throws and the
\* catch answers 500.
getTransactionDetail(params) ==
  IF "transaction_id" \notin DOMAIN params
    THEN [handler |-> "getTransactionDetail", status |-> 500, data |-> Null]
  ELSE LET transaction_id == params["transaction_id"]
       IN  IF transaction_id.text = "uuid"
                /\ transaction_id.id \in 1..Len(transactions)
             THEN [handler |-> "getTransactionDetail", status |-> 200,
                   data |-> transactions[transaction_id.id]]
           ELSE [handler |-> "getTransactionDetail", status |-> 404,
                 data |-> Null]

\* GET /transactions/<segment> is answered by the handler the router
\* dispatches it to.
Get(router, segment) ==
  /\ \E k \in 1..Len(router) : matches(router[k], segment)
  /\ LET route == router[dispatch(router, segment)]
     IN  reply' =
           [segment |-> segment,
            response |->
              IF route.handler = "getTransactionStatistics"
                THEN getTransactionStatistics(transactions, books, genres)
                ELSE getTransactionDetail(paramsOf(route, segment))]
  /\ UNCHANGED <<books, transactions, audit, req, genres>>

\* What every specification shares: the steps of a request under way.
Handle ==
  \/ \E r \in Reqs : FindMany(r)
  \/ \E r \in Reqs : Create(r)
  \/ \E r \in Reqs : Update(r)
  \/ \E r \in Reqs : Close(r)

\* Orders of one user, one at a time, with persistence faults and price
\* edits in between.
Next ==
  \/ \E r \in Reqs :
       NoOtherInFlight(r)
         /\ Receive(r, {Bearer(Token(TRUE, FALSE, 1))}, OrderBodies)
  \/ Handle
  \/ \E r \in Reqs : PersistenceFault(r)
  \/ \E b \in BookIds, p \in Prices : UpdateBook(b, {"price"}, p, 0)

Spec == Init /\ [][Next]_vars

\* Concurrent orders, no fault, no catalogue edit.
NextOrders ==
  \/ \E r \in Reqs : Receive(r, ValidHeaders, OrderBodies)
  \/ Handle

SpecOrders == Init /\ [][NextOrders]_vars

\* Orders one at a time that may name unknown books or exceed the stock.
NextStock ==
  \/ \E r \in Reqs :
       NoOtherInFlight(r) /\ Receive(r, ValidHeaders \cup {NoHeader}, StockBodies)
  \/ Handle

SpecStock == Init /\ [][NextStock]_vars

\* Requests one at a time with any Authorization header and any body shape.
NextInput ==
  \/ \E r \in Reqs :
       NoOtherInFlight(r) /\ Receive(r, AllHeaders, ShapeBodies)
  \/ Handle

SpecInput == Init /\ [][NextInput]_vars

\* Orders of one user, one at a time, and statistics requests in between.
NextReports ==
  \/ \E r \in Reqs :
       NoOtherInFlight(r)
         /\ Receive(r, {Bearer(Token(TRUE, FALSE, 1))}, OrderBodies)
  \/ Handle
  \/ GetStatistics

SpecReports == Init /\ [][NextReports]_vars

\* The catalogue handlers, one request after another.
NextCatalog ==
  \/ \E name \in GenreNames : CreateGenre(name)
  \/ \E g \in GenreIds, name \in GenreNames : UpdateGenre(g, {"name"}, name)
  \/ \E g \in GenreIds : UpdateGenre(g, {}, Undefined)
  \/ \E g \in GenreIds : DeleteGenre(g)
  \/ \E t \in BookIds, g \in GenreIds : CreateBook(t, g, "")
  \/ \E t \in BookIds, name \in GenreNames : CreateBook(t, NoId, name)
  \/ \E b \in BookIds, g \in GenreIds \cup {NoId} : UpdateBookGenre(b, g)
  \/ \E b \in BookIds : DeleteBook(b)

SpecCatalog == Init /\ [][NextCatalog]_vars

\* Orders of one user, one at a time, and GET /transactions/<segment>
\* requests in between, under either router.
NextRoutes ==
  \/ \E r \in Reqs :
       NoOtherInFlight(r)
         /\ Receive(r, {Bearer(Token(TRUE, FALSE, 1))}, OrderBodies)
  \/ Handle
  \/ \E router \in Routers, segment \in Segments : Get(router, segment)

SpecRoutes == Init /\ [][NextRoutes]_vars

\* ------------------------------------------------------------------ claims
Rows == 1..Len(transactions)

InFlight(r) == req[r].pc \notin {"idle", "closed"}
Done(r)     == req[r].pc = "done"

\* C1: under any interleaving of concurrent createTransaction requests no
\* Book's stock is negative in any reachable state.
C1_StockNeverNegative ==
  \A b \in BookIds : books[b].stock >= 0

\* C2: the mutation phase is all-or-nothing: a request that ends in a
\* persistence failure (500) has persisted no Transaction row and changed no
\* Book's stock.
C2_AllOrNothing ==
  \A r \in Reqs :
    Done(r) /\ req[r].status = 500 =>
      /\ Len(transactions) = req[r].rows
      /\ \A b \in BookIds : books[b].stock = req[r].before[b]

RECURSIVE Ordered(_, _)
\* The quantity an order asks of book b, over all its lines.
Ordered(items, b) ==
  IF items = <<>> THEN 0
  ELSE (IF items[1].bookId = b THEN items[1].quantity ELSE 0)
         + Ordered(Tail(items), b)

RECURSIVE Priced(_)
\* The amount of an order at the Book table's prices.
Priced(items) ==
  IF items = <<>> THEN 0
  ELSE books[items[1].bookId].price * items[1].quantity + Priced(Tail(items))

Authenticated(r) == req[r].headers \in ValidHeaders
KnownBooks(items) == \A k \in 1..Len(items) : items[k].bookId \in DOMAIN books
Untouched(r) ==
  /\ Len(transactions) = req[r].rows
  /\ \A b \in BookIds : books[b].stock = req[r].before[b]

\* C4: with no other request in flight, an order that succeeds (201) leaves
\* every Book's stock at its stock before minus the quantity ordered of it
\* (nothing for a Book not ordered) and records the order's amount; an order
\* that fails at validation (400, 401, 404) leaves every stock unchanged.
C4_StockAccounting ==
  [][\A r \in Reqs :
       req[r].pc # "done" /\ req'[r].pc = "done" =>
         LET q == req'[r] IN
         /\ q.status = 201 =>
              /\ \A b \in BookIds :
                   books'[b].stock = q.before[b] - Ordered(q.body.items, b)
              /\ Len(transactions') = q.rows + 1
              /\ transactions'[Len(transactions')].totalAmount
                   = Priced(q.body.items)
         /\ q.status \in {400, 401, 404} =>
              \A b \in BookIds : books'[b].stock = q.before[b]]_vars

\* An order for all of book 1 has succeeded and emptied its stock.
C4_Witness ==
  \E r \in Reqs :
    /\ Done(r) /\ req[r].status = 201
    /\ req[r].before[1] = Num(MaxStock) /\ books[1].stock = 0
    /\ books[2].stock = req[r].before[2]

FirstExceeding(items, stock) ==
  LET over == {k \in 1..Len(items) : items[k].quantity > stock[items[k].bookId]}
  IN  IF over = {} THEN 0 ELSE CHOOSE k \in over : \A j \in over : k <= j

\* C5: an authenticated order on existing books in which some line asks for
\* more than the stock of its Book ends with 400 InsufficientStock naming
\* the first such book in request order, and persists and changes nothing.
C5_InsufficientStock ==
  \A r \in Reqs :
    LET items == req[r].body.items
        k     == FirstExceeding(items, req[r].before)
    IN  Done(r) /\ Authenticated(r) /\ KnownBooks(items)
          /\ FirstExceeding(items, req[r].before) # 0 =>
            /\ req[r].status = 400
            /\ req[r].message = "Insufficient stock for book"
            /\ req[r].offender = items[k].bookId
            /\ Untouched(r)

\* C6: an authenticated order in which a line's bookId matches no Book never
\* reaches the mutation phase and ends with 404, not with the outcome of the
\* stock check; nothing is persisted and no stock changes.
C6_NotFound ==
  \A r \in Reqs :
    LET items == req[r].body.items IN
    InFlight(r) /\ Authenticated(r) /\ ~KnownBooks(items) =>
      /\ req[r].pc \in {"findMany", "done"}
      /\ Done(r) => req[r].status = 404 /\ req[r].offender = NoId /\ Untouched(r)

\* An order whose first line exceeds the stock of an existing Book and whose
\* second line names an unknown book has ended with 404.
C6_Witness ==
  \E r \in Reqs :
    /\ Done(r) /\ req[r].status = 404 /\ Len(req[r].body.items) = 2
    /\ req[r].body.items[1].bookId \in BookIds
    /\ req[r].body.items[1].quantity > req[r].before[req[r].body.items[1].bookId]
    /\ req[r].body.items[2].bookId = GhostId

Repeated(items) ==
  \E j, k \in 1..Len(items) : j # k /\ items[j].bookId = items[k].bookId

\* C7: an authenticated order that repeats an existing Book succeeds when the
\* summed quantities of every Book are within its stock, fails with
\* InsufficientStock when a sum exceeds it, and is never answered NotFound.
C7_RepeatedBook ==
  \A r \in Reqs :
    LET items == req[r].body.items
        within == \A b \in BookIds : Ordered(items, b) <= req[r].before[b]
    IN  Done(r) /\ Authenticated(r) /\ KnownBooks(items) /\ Repeated(items) =>
          /\ req[r].status # 404
          /\ within => req[r].status = 201
          /\ ~within => req[r].status = 400

\* What the contract calls invalid input.
InvalidInput(body) ==
  \/ body.kind # "list"
  \/ Len(body.items) = 0
  \/ \E k \in 1..Len(body.items) :
       \/ body.items[k].bookId = NoId
       \/ body.items[k].quantity <= 0
       \/ ~IsInteger(body.items[k].quantity)

\* C8: an authenticated request whose items are absent, not a list, empty,
\* or hold an entry with a missing bookId or a quantity that is zero,
\* negative or not an integer ends with 400 before any book lookup and
\* persists nothing.
C8_InvalidInput ==
  \A r \in Reqs :
    InFlight(r) /\ Authenticated(r) /\ InvalidInput(req[r].body) =>
      Done(r) /\ req[r].status = 400 /\ Untouched(r)

\* C9: a request with no Authorization header, a header that is not a Bearer
\* one, or a token that fails verification is answered 401 without reaching
\* the order logic, whatever its body; and every Transaction row carries the
\* id of the verified token of the request that created it.
C9_Unauthorized ==
  /\ \A r \in Reqs :
       InFlight(r) /\ (\/ req[r].headers.scheme # "Bearer"
                       \/ ~req[r].headers.token.signed
                       \/ req[r].headers.token.expired) =>
         Done(r) /\ req[r].status = 401 /\ Untouched(r)
  /\ \A t \in Rows :
       /\ audit[t].token.signed /\ ~audit[t].token.expired
       /\ transactions[t].userId = audit[t].token.payload.id

\* User 2 has a Transaction, and a request with a forged token for user 1 and
\* a well-formed order has been answered 401.
C9_Witness ==
  /\ \E t \in Rows : transactions[t].userId = 2
  /\ \E r \in Reqs :
       /\ Done(r) /\ req[r].status = 401
       /\ req[r].headers = Bearer(Token(FALSE, FALSE, 1))
       /\ ~InvalidInput(req[r].body)

\* C10: a Transaction row, once created, is left as it is by every later
\* step: price edits of its Books and later orders included.
C10_TransactionsImmutable ==
  [][\A t \in Rows :
       Len(transactions') >= t /\ transactions'[t] = transactions[t]]_vars

\* Two Transactions exist and the Book of the first one's first line has
\* another price now than the line records.
C10_Witness ==
  /\ Len(transactions) = 2
  /\ transactions[1].transactionDetails[1].price
       # books[transactions[1].transactionDetails[1].bookId].price

RECURSIVE SoldOf(_, _)
\* The quantity a list of details sells of the books that belong to genre g.
SoldOf(details, g) ==
  IF details = <<>> THEN 0
  ELSE (IF books[details[1].bookId].genreId = g THEN details[1].quantity ELSE 0)
         + SoldOf(Tail(details), g)

RECURSIVE Popularity(_, _)
Popularity(rows, g) ==
  IF rows = <<>> THEN 0
  ELSE SoldOf(rows[1].transactionDetails, g) + Popularity(Tail(rows), g)

GenresSold == {g \in DOMAIN genres : Popularity(transactions, g) > 0}

RECURSIVE AmountOf(_, _)
\* The sum of totalAmount over the first n rows.
AmountOf(rows, n) ==
  IF n = 0 THEN 0 ELSE AmountOf(rows, n - 1) + rows[n].totalAmount

StatisticsAnswered ==
  reply' # reply /\ reply'.handler = "getTransactionStatistics"

\* C11: getTransactionStatistics returns the number of transactions, their
\* average amount (0 when there are none), a most popular genre whose
\* quantity sold is >= that of every genre sold and a least popular one whose
\* quantity sold is <= that of every genre sold, both null exactly when no
\* transaction exists; and it changes no table.
C11_Statistics ==
  [][StatisticsAnswered =>
       LET n     == Len(transactions)
           most  == reply'.mostPopularGenre
           least == reply'.leastPopularGenre
           avg   == reply'.averageTransaction
       IN  /\ reply'.status = 200
           /\ reply'.totalTransactions = n
           /\ avg.den # 0
           /\ avg.num * (IF n = 0 THEN 1 ELSE n)
                = AmountOf(transactions, n) * avg.den
           /\ (most = Null) <=> (n = 0)
           /\ (least = Null) <=> (n = 0)
           /\ n > 0 =>
                /\ most.genreId \in GenresSold
                /\ least.genreId \in GenresSold
                /\ most.totalTransactions = Popularity(transactions, most.genreId)
                /\ least.totalTransactions
                     = Popularity(transactions, least.genreId)
                /\ \A g \in GenresSold :
                     /\ most.totalTransactions >= Popularity(transactions, g)
                     /\ least.totalTransactions <= Popularity(transactions, g)
           /\ UNCHANGED <<books, transactions, genres>>]_vars

\* Statistics over two transactions whose most and least popular genres
\* differ.
C11_Witness ==
  /\ reply.handler = "getTransactionStatistics"
  /\ reply.totalTransactions = 2 /\ Len(transactions) = 2
  /\ reply.mostPopularGenre # Null
  /\ reply.mostPopularGenre.totalTransactions
       > reply.leastPopularGenre.totalTransactions

Referenced(g) == \E b \in DOMAIN books : books[b].genreId = g

DeleteGenreAnswered ==
  reply' # reply /\ reply'.handler = "deleteGenre"

\* C12: deleteGenre on a genre that a Book references answers 400 and leaves
\* genres and books as they are; on an existing genre that no Book
\* references it answers 200 and removes exactly that genre; and after every
\* createBook, updateBook, deleteBook and deleteGenre each Book references a
\* Genre that exists.
C12_DeleteGenreGuard ==
  [][/\ DeleteGenreAnswered /\ Referenced(reply'.id) =>
          reply'.status = 400 /\ genres' = genres /\ books' = books
     /\ DeleteGenreAnswered /\ ~Referenced(reply'.id)
          /\ reply'.id \in DOMAIN genres =>
          /\ reply'.status = 200
          /\ DOMAIN genres' = DOMAIN genres \ {reply'.id}
          /\ \A g \in DOMAIN genres' : genres'[g] = genres[g]
          /\ books' = books
     /\ \A b \in DOMAIN books' : books'[b].genreId \in DOMAIN genres']_vars

\* A genre that no Book references has been deleted while a Book of another
\* genre is still in the catalogue.
C12_Witness ==
  /\ reply.handler = "deleteGenre" /\ reply.status = 200
  /\ reply.id \notin DOMAIN genres
  /\ \E b \in DOMAIN books : books[b].genreId # reply.id

CreateGenreAnswered ==
  reply' # reply /\ reply'.handler = "createGenre"

UpdateGenreAnswered ==
  reply' # reply /\ reply'.handler = "updateGenre"

\* C13: createGenre with the exact name of an existing genre answers 400 and
\* creates nothing; updateGenre to a name that a different genre holds is
\* rejected and changes nothing; and after every createGenre, updateGenre
\* and createBook no two Genre records have the same name.
C13_GenreNamesUnique ==
  [][/\ CreateGenreAnswered /\ genresNamed(reply'.name) # {} =>
          reply'.status = 400 /\ genres' = genres /\ books' = books
     /\ UpdateGenreAnswered /\ genresNamed(reply'.name) \ {reply'.id} # {} =>
          reply'.status \in {400, 404, 500} /\ genres' = genres
     /\ \A g, h \in DOMAIN genres' : genres'[g] = genres'[h] => g = h]_vars

\* A createGenre has just been refused for a name that a genre made by
\* createBook holds, beside genres whose names differ from it only by case
\* or a leading blank.
C13_Witness ==
  /\ reply.handler = "createGenre" /\ reply.status = 400
  /\ genresNamed(reply.name) # {}
  /\ \E g \in DOMAIN genres \ genresNamed(reply.name) :
       toLower(trim(genres[g])) = toLower(trim(reply.name))

GetAnswered ==
  reply' # reply /\ "segment" \in DOMAIN reply'

\* C14: GET /transactions/<id> answers 200 with the Transaction of that id
\* when it exists and 404 when none does, never 500; and
\* GET /transactions/statistics is answered by the statistics handler.
C14_DetailRoute ==
  [][GetAnswered =>
       LET segment  == reply'.segment
           response == reply'.response
       IN  /\ segment = Statistics =>
                response.handler = "getTransactionStatistics"
           /\ segment # Statistics =>
                /\ response.handler = "getTransactionDetail"
                /\ segment.id \in Rows =>
                     /\ response.status = 200
                     /\ response.data = transactions[segment.id]
                /\ segment.id \notin Rows => response.status = 404
           /\ response.status # 500]_vars

\* No request is between its arrival and its answer.
Quiescent == \A r \in Reqs : req[r].pc \in {"idle", "done", "closed"}

RECURSIVE Persisted(_, _)
\* The quantity the persisted TransactionDetail rows record for book b.
Persisted(rows, b) ==
  IF rows = <<>> THEN 0
  ELSE Ordered(rows[1].transactionDetails, b) + Persisted(Tail(rows), b)

\* C15: once every createTransaction request has finished, with no
\* persistence fault and no catalogue edit, the stock of every Book is its
\* initial stock less the quantities of all persisted TransactionDetail rows
\* that reference it.
C15_NoLostDecrement ==
  Quiescent =>
    \A b \in BookIds :
      books[b].stock = Num(MaxStock) - Persisted(transactions, b)

\* Two requests that overlapped have both finished: each persisted a row on
\* the same Book and together they sold more than was in stock.
C15_Witness ==
  /\ Quiescent /\ Len(transactions) = 2
  /\ \E b \in BookIds :
       /\ \A k \in Rows : Ordered(transactions[k].transactionDetails, b) > 0
       /\ Persisted(transactions, b) > Num(MaxStock)

=============================================================================
